---- MODULE Spec2Model ----
(***************************************************************************)
(* Harmony editor (src/main.py): the syntax highlighter (SyntaxHighlighter *)
(* and loadSyntax), the document it is attached to, and the TabContainer.  *)
(*                                                                         *)
(* A line of text is a sequence of one-character strings.  Offsets in      *)
(* spans are 0-based as in Python; indices into sequences are 1-based.     *)
(***************************************************************************)
EXTENDS Integers, Sequences, FiniteSets, TLC

VARIABLES
    pc,            \* position of the highlighter scenario: "new", "ready", "done"
    hl,            \* the SyntaxHighlighter object: [theme, language]
    block,         \* the block last given to highlightBlock, with what it produced
    reported,      \* the QMessageBox texts shown so far, in order
    doc,           \* the QTextDocument: a sequence of [text, userState, formats]
    tabs,          \* TabContainer.tabs
    pages,         \* the QTabWidget's own page list (widget(i) is pages[i+1])
    currentIndex,  \* QTabWidget.currentIndex(), -1 when there is no page
    created        \* number of Tab objects constructed so far

vars == <<pc, hl, block, reported, doc, tabs, pages, currentIndex, created>>

(***************************************************************************)
(* Bounds of the model.                                                    *)
(***************************************************************************)
MaxLen == 3
MaxLines == 3
MaxCreated == 4

(***************************************************************************)
(* Characters.                                                             *)
(***************************************************************************)
\* \w of Python's re, restricted to the characters the model uses
WordChars == {"i", "f", "x", "p", "a", "s", "e", "l", "n", "t", "c", "o", "m", "r"}
\* \s
Spaces == {" "}
\* the characters the bounded line texts are built from
Alphabet == {"i", "f", " ", "#", "\"", "+", "(", "\\"}

\* class BlockState
OutsideComment == -1
InsideComment == 1

RECURSIVE SeqsUpTo(_, _)
SeqsUpTo(S, n) ==
    IF n = 0 THEN {<<>>}
    ELSE LET shorter == SeqsUpTo(S, n - 1)
         IN  shorter \cup {Append(s, c) : s \in shorter, c \in S}

(***************************************************************************)
(* Regular expressions.  A pattern string of the grammar file is a         *)
(* sequence of tokens: a plain character, an escaped metacharacter         *)
(* ("\\+", "\\(", "\\*") or a bare metacharacter ("+", "*", "(").          *)
(***************************************************************************)
Quantifiers == {"+", "*"}

\* the character a token matches
PatChar(tok) ==
    CASE tok = "\\+" -> "+"
      [] tok = "\\(" -> "("
      [] tok = "\\*" -> "*"
      [] OTHER -> tok

\* re.compile raises re.error: a leading quantifier ("nothing to repeat") or
\* an opening parenthesis that is never closed
Malformed(pat) ==
    \/ pat # <<>> /\ pat[1] \in Quantifiers
    \/ \E k \in 1..Len(pat) :
          pat[k] = "(" /\ ~\E j \in (k + 1)..Len(pat) : pat[j] = ")"

\* the tokens of pat match text literally from index i on
LitAt(text, i, pat) ==
    /\ i + Len(pat) - 1 <= Len(text)
    /\ \A k \in 1..Len(pat) : text[i + k - 1] = PatChar(pat[k])

IsWordAt(text, i) == i \in 1..Len(text) /\ text[i] \in WordChars

\* \b holds between text[i-1] and text[i]
Boundary(text, i) == IsWordAt(text, i - 1) # IsWordAt(text, i)

\* first index >= j whose character is outside S (Len(text)+1 when none)
RECURSIVE RunEnd(_, _, _)
RunEnd(text, j, S) ==
    IF j > Len(text) \/ text[j] \notin S THEN j ELSE RunEnd(text, j + 1, S)

\* the body of a string rule, [^q\\]*(\\.[^q\\]*)*q, read from index j: the
\* index of the closing quote, or 0 when the body does not match
RECURSIVE StringEnd(_, _, _)
StringEnd(text, j, q) ==
    IF j > Len(text) THEN 0
    ELSE IF text[j] = q THEN j
    ELSE IF text[j] = "\\"
         THEN IF j + 1 > Len(text) THEN 0 ELSE StringEnd(text, j + 2, q)
    ELSE StringEnd(text, j + 1, q)

\* a match object: start()/end() and start(1)/end(1), 0-based, end exclusive
Match(s, e, gs, ge) == [start |-> s, end |-> e, gstart |-> gs, gend |-> ge]

\* the match of rule anchored at index i: <<m>>, or <<>> when there is none
MatchAt(rule, text, i) ==
    LET n == Len(rule.pat) IN
    CASE rule.kind = "word" ->          \* \b%s\b
           IF Boundary(text, i) /\ LitAt(text, i, rule.pat) /\ Boundary(text, i + n)
           THEN <<Match(i - 1, i - 1 + n, i - 1, i - 1 + n)>> ELSE <<>>
      [] rule.kind = "plain" ->         \* %s
           IF LitAt(text, i, rule.pat)
           THEN <<Match(i - 1, i - 1 + n, i - 1, i - 1 + n)>> ELSE <<>>
      [] rule.kind = "definition" ->    \* \b%s\b\s*(\w+)
           LET j == RunEnd(text, i + n, Spaces)
               k == RunEnd(text, j, WordChars)
           IN  IF /\ Boundary(text, i) /\ LitAt(text, i, rule.pat)
                  /\ Boundary(text, i + n) /\ k > j
               THEN <<Match(i - 1, k - 1, j - 1, k - 1)>> ELSE <<>>
      [] rule.kind = "string" ->        \* q[^q\\]*(\\.[^q\\]*)*q
           LET e == IF i <= Len(text) /\ text[i] = rule.pat[1]
                    THEN StringEnd(text, i + 1, rule.pat[1]) ELSE 0
           IN  IF e # 0 THEN <<Match(i - 1, e, i - 1, e)>> ELSE <<>>
      [] rule.kind = "comment" ->       \* %s[^\n]*
           IF LitAt(text, i, rule.pat)
           THEN <<Match(i - 1, Len(text), i - 1, Len(text))>> ELSE <<>>

\* re.finditer(rule, text): the non-overlapping matches, leftmost first,
\* searching from index i (no rule of the model matches the empty string)
RECURSIVE FindIter(_, _, _)
FindIter(rule, text, i) ==
    IF i > Len(text) THEN <<>>
    ELSE LET m == MatchAt(rule, text, i)
         IN  IF m = <<>> THEN FindIter(rule, text, i + 1)
             ELSE m \o FindIter(rule, text, m[1].end + 1)

(***************************************************************************)
(* SyntaxHighlighter.                                                      *)
(***************************************************************************)
\* the rule types getFormat accepts
Categories == {"keyword", "operator", "brace", "definition", "string", "comment", "special"}

\* the keys highlightBlock reads from self.language, in the order it reads them
LanguageKeys == <<"keywords", "operators", "braces", "definitions", "specials", "comment">>

\* getFormat: the format is identified by its rule type; a rule type outside
\* the fixed set raises ValueError, one the theme lacks shows a message box
\* and raises KeyError
getFormat(self, ruleType) ==
    IF ruleType \notin Categories THEN "ValueError"
    ELSE IF ruleType \notin self.theme THEN "KeyError"
    ELSE ruleType

\* QSyntaxHighlighter.setFormat(start, count, format) on the block's
\* per-character format vector
setFormat(formats, start, count, format) ==
    IF start < 0 \/ start >= Len(formats) THEN formats
    ELSE [k \in 1..Len(formats) |->
             IF k - 1 >= start /\ k - 1 < start + count THEN format ELSE formats[k]]

\* keywordRules without the \b anchors
keywordRulesNoBoundary(language) ==
    [k \in 1..Len(language.keywords) |-> [kind |-> "plain", pat |-> language.keywords[k]]]

\* the rule lists highlightBlock builds from self.language
keywordRules(language) ==
    [k \in 1..Len(language.keywords) |-> [kind |-> "word", pat |-> language.keywords[k]]]
operatorRules(language) ==
    [k \in 1..Len(language.operators) |-> [kind |-> "plain", pat |-> language.operators[k]]]
braceRules(language) ==
    [k \in 1..Len(language.braces) |-> [kind |-> "plain", pat |-> language.braces[k]]]
definitionRules(language) ==
    [k \in 1..Len(language.definitions) |->
        [kind |-> "definition", pat |-> language.definitions[k]]]
stringRules ==
    << [kind |-> "string", pat |-> <<"\"">>], [kind |-> "string", pat |-> <<"'">>] >>
specialRules(language) ==
    [k \in 1..Len(language.specials) |-> [kind |-> "plain", pat |-> language.specials[k]]]
commentRule(language) == [kind |-> "comment", pat |-> language.comment]

RulesOf(language, cat) ==
    CASE cat = "keyword" -> keywordRules(language)
      [] cat = "operator" -> operatorRules(language)
      [] cat = "brace" -> braceRules(language)
      [] cat = "special" -> specialRules(language)
      [] cat = "definition" -> definitionRules(language)
      [] cat = "string" -> stringRules
      [] cat = "comment" -> <<commentRule(language)>>

\* ApplicationOrder with the comment rule applied before the string rules
ApplicationOrderCommentEarly ==
    <<"keyword", "operator", "brace", "special", "definition", "comment", "string">>

\* the order in which highlightBlock applies the categories
ApplicationOrder ==
    <<"keyword", "operator", "brace", "special", "definition", "string", "comment">>

\* GroupIndex when the definition call passes no group index
GroupIndexWholeMatch(cat) == 0

\* the group whose extent is formatted: 1 for definitions, else the whole match
GroupIndex(cat) == IF cat = "definition" THEN 1 ELSE 0

MatchStart(m, index) == IF index = 1 THEN m.gstart ELSE m.start
MatchEnd(m, index) == IF index = 1 THEN m.gend ELSE m.end

\* the inner loop: setFormat for each match, in order.  st is what the call
\* has done so far: [spans, formats, raised]
RECURSIVE ApplyMatches(_, _, _, _, _)
ApplyMatches(ms, k, format, index, st) ==
    IF k > Len(ms) THEN st
    ELSE LET s == MatchStart(ms[k], index)
             n == MatchEnd(ms[k], index) - s
         IN  ApplyMatches(ms, k + 1, format, index,
                 [st EXCEPT
                     !.spans = Append(@, [start |-> s, length |-> n, category |-> format]),
                     !.formats = setFormat(@, s, n, format)])

\* searchAndApplyFormatting from rule k on; a pattern that does not compile
\* raises re.error out of re.finditer, and an exception already raised skips
\* the call
RECURSIVE searchAndApplyFormatting(_, _, _, _, _, _)
searchAndApplyFormatting(text, rules, k, format, index, st) ==
    IF st.raised # "none" \/ k > Len(rules) THEN st
    ELSE IF Malformed(rules[k].pat) THEN [st EXCEPT !.raised = "re.error"]
    ELSE searchAndApplyFormatting(text, rules, k + 1, format, index,
             ApplyMatches(FindIter(rules[k], text, 1), 1, format, index, st))

\* the seven application statements of highlightBlock, from the k-th on
RECURSIVE ApplyCategories(_, _, _, _)
ApplyCategories(self, text, k, st) ==
    IF k > Len(ApplicationOrder) THEN st
    ELSE LET cat == ApplicationOrder[k]
         IN  ApplyCategories(self, text, k + 1,
                 searchAndApplyFormatting(text, RulesOf(self.language, cat), 1,
                                          getFormat(self, cat), GroupIndex(cat), st))

NoFormat == "none"
Blank(text) == [k \in 1..Len(text) |-> NoFormat]

\* highlightBlock(text) with previousBlockState() = prev on a block whose own
\* state is cur.  It never calls setCurrentBlockState, so the block keeps cur.
\* Result: the setFormat calls made (spans), the format vector, the exception
\* that left the method uncaught ("none" when it returned), the message boxes
\* shown, and the block's state afterwards.
highlightBlock(self, text, prev, cur) ==
    LET start == [spans |-> <<>>, formats |-> Blank(text), raised |-> "none"]
        nothing == [spans |-> <<>>, formats |-> Blank(text)]
    IN  IF \E c \in Categories : getFormat(self, c) = "KeyError"
        THEN \* getFormat shows the box and re-raises, outside the try
             [spans |-> <<>>, formats |-> Blank(text), raised |-> "KeyError",
              reported |-> <<"Invalid format">>, state |-> cur]
        ELSE IF \E k \in 1..Len(LanguageKeys) : LanguageKeys[k] \notin DOMAIN self.language
        THEN \* KeyError while the rules are built: caught, box, return
             [spans |-> <<>>, formats |-> Blank(text), raised |-> "none",
              reported |-> <<"Invalid format">>, state |-> cur]
        ELSE LET st == ApplyCategories(self, text, 1, start)
             IN  [spans |-> st.spans, formats |-> st.formats, raised |-> st.raised,
                  reported |-> <<>>, state |-> cur]

\* isInsideComment / isOutsideComment, given previousBlockState()
isInsideComment(prev) == prev = InsideComment
isOutsideComment(prev) == prev = OutsideComment

(***************************************************************************)
(* The configuration files: themes/*.theme and languages/*.lang.           *)
(***************************************************************************)
\* a theme's 'syntax' section, as the set of rule types it has an entry for
FullTheme == Categories
Themes == {FullTheme, FullTheme \ {"operator"}, FullTheme \ {"comment"}}

\* a grammar as the YAML file gives it
Grammar(kw, op, br, df, sp, cm) ==
    [keywords |-> kw, operators |-> op, braces |-> br, definitions |-> df,
     specials |-> sp, comment |-> cm,
     multiline |-> [start |-> <<"/", "\\*">>, end |-> <<"\\*", "/">>]]

\* the languages directory: extension -> grammar
LanguageFiles ==
    [ext \in {"py", "bad", "nil"} |->
        CASE ext = "py" ->
               Grammar(<< <<"i", "f">>, <<"e", "l", "s", "e">>, <<"f", "o", "r">> >>,
                       << <<"\\+">> >>, << <<"\\(">> >>, << <<"f">> >>,
                       << <<"i">> >>, <<"#">>)
          [] ext = "bad" ->   \* the first operator pattern is a bare "+"
               Grammar(<< <<"i", "f">>, <<"e", "l", "s", "e">>, <<"f", "o", "r">> >>,
                       << <<"+">>, <<"\\+">> >>, << <<"\\(">> >>, << <<"f">> >>,
                       << <<"i">> >>, <<"#">>)
          [] ext = "nil" ->   \* every category list is empty
               Grammar(<<>>, <<>>, <<>>, <<>>, <<>>, <<"#">>)]

\* the extensions a file may have; "txt" has no grammar file
Extensions == {"py", "bad", "nil", "txt"}

EmptyDict == [k \in {} |-> <<>>]

\* loadSyntax(lang): the grammar, or {} and a warning box when the file is
\* not found
loadSyntax(lang) ==
    IF lang \in DOMAIN LanguageFiles
    THEN [language |-> LanguageFiles[lang], reported |-> <<>>]
    ELSE [language |-> EmptyDict, reported |-> <<"Could not open syntax file">>]

\* SyntaxHighlighter.__init__(document, theme, language)
NewHighlighter(theme, lang) == [theme |-> theme, language |-> loadSyntax(lang).language]

(***************************************************************************)
(* Highlighting one block.                                                 *)
(***************************************************************************)
\* lines the scenarios of the specification use
ScenarioTexts ==
    { <<"i", "f", " ", "x", ":", " ", "p", "a", "s", "s">>,
      <<"f", "o", "r", "i", "n", "t">>,
      <<"f", "o", "r", " ", "i", "n", "t">>,
      <<"f", " ", " ", "i", "f", "(">>,
      <<"\"", "\\", "\"", "i", "\"">>,
      <<"'", "i", "f", "'", "+">> }

Texts == SeqsUpTo(Alphabet, MaxLen) \cup ScenarioTexts

NoBlock ==
    [text |-> <<>>, prev |-> OutsideComment, spans |-> <<>>, formats |-> <<>>,
     raised |-> "none", state |-> OutsideComment]

InitTabs ==
    /\ tabs = <<>>
    /\ pages = <<>>
    /\ currentIndex = -1
    /\ created = 0

InitHighlight ==
    /\ pc = "new"
    /\ hl = NewHighlighter(FullTheme, "py")
    /\ block = NoBlock
    /\ reported = <<>>
    /\ doc = <<>>
    /\ InitTabs

\* SyntaxHighlighter(document, theme, language)
Construct(theme, lang) ==
    /\ pc = "new"
    /\ hl' = NewHighlighter(theme, lang)
    /\ reported' = reported \o loadSyntax(lang).reported
    /\ pc' = "ready"
    /\ UNCHANGED <<block, doc, tabs, pages, currentIndex, created>>

\* Qt calls highlightBlock(text) on a fresh block whose predecessor's state
\* is prev
Highlight ==
    /\ pc = "ready"
    /\ \E text \in Texts, prev \in {OutsideComment, InsideComment} :
           LET r == highlightBlock(hl, text, prev, OutsideComment)
           IN  /\ block' = [text |-> text, prev |-> prev, spans |-> r.spans,
                            formats |-> r.formats, raised |-> r.raised, state |-> r.state]
               /\ reported' = reported \o r.reported
    /\ pc' = "done"
    /\ UNCHANGED <<hl, doc, tabs, pages, currentIndex, created>>

NextHighlight ==
    \/ \E theme \in Themes, lang \in Extensions : Construct(theme, lang)
    \/ Highlight

SpecHighlight == InitHighlight /\ [][NextHighlight]_vars

(***************************************************************************)
(* The document a highlighter is attached to.  After every change Qt       *)
(* re-highlights the changed blocks in document order and goes on to the   *)
(* next block for as long as the block just done changed its state.        *)
(***************************************************************************)
\* lines an edit may type, over the multi-line delimiters of the grammar
DocTexts ==
    { <<"i", "f">>,
      <<"/", "*", "i", "f">>,
      <<"i", "*", "/">>,
      <<"/", "*", "*", "/">>,
      <<"i", "f", " ", "/", "*">> }

NewBlock(text) == [text |-> text, userState |-> OutsideComment, formats |-> Blank(text)]

\* previousBlockState() of block i
previousBlockState(d, i) == IF i = 1 THEN -1 ELSE d[i - 1].userState

\* re-highlight blocks i..last of d, and further while the state changes
RECURSIVE reformatBlocks(_, _, _, _, _)
reformatBlocks(self, d, i, last, force) ==
    IF i > Len(d) \/ (i > last /\ ~force) THEN d
    ELSE LET r == highlightBlock(self, d[i].text, previousBlockState(d, i), d[i].userState)
             b == [text |-> d[i].text, userState |-> r.state, formats |-> r.formats]
         IN  reformatBlocks(self, [d EXCEPT ![i] = b], i + 1, last,
                            r.state # d[i].userState)

InsertAt(seq, i, x) == SubSeq(seq, 1, i - 1) \o <<x>> \o SubSeq(seq, i, Len(seq))
RemoveAt(seq, i) == SubSeq(seq, 1, i - 1) \o SubSeq(seq, i + 1, Len(seq))

InitDoc ==
    /\ pc = "ready"
    /\ hl = NewHighlighter(FullTheme, "py")
    /\ block = NoBlock
    /\ reported = <<>>
    /\ doc = <<NewBlock(<<>>)>>
    /\ InitTabs

\* the user retypes line i
SetLineText(i, text) ==
    /\ i \in 1..Len(doc)
    /\ doc' = reformatBlocks(hl, [doc EXCEPT ![i] = [@ EXCEPT !.text = text]], i, i, FALSE)
    /\ UNCHANGED <<pc, hl, block, reported, tabs, pages, currentIndex, created>>

\* the user inserts a new line before line i (i = Len(doc)+1 appends)
InsertLine(i, text) ==
    /\ Len(doc) < MaxLines
    /\ i \in 1..(Len(doc) + 1)
    /\ doc' = reformatBlocks(hl, InsertAt(doc, i, NewBlock(text)), i, i, FALSE)
    /\ UNCHANGED <<pc, hl, block, reported, tabs, pages, currentIndex, created>>

\* the user removes line i
RemoveLine(i) ==
    /\ Len(doc) > 1
    /\ i \in 1..Len(doc)
    /\ LET d == RemoveAt(doc, i)
           j == IF i > Len(d) THEN Len(d) ELSE i
       IN  doc' = reformatBlocks(hl, d, j, j, FALSE)
    /\ UNCHANGED <<pc, hl, block, reported, tabs, pages, currentIndex, created>>

NextDoc ==
    \/ \E i \in 1..MaxLines, text \in DocTexts : SetLineText(i, text)
    \/ \E i \in 1..(MaxLines + 1), text \in DocTexts : InsertLine(i, text)
    \/ \E i \in 1..MaxLines : RemoveLine(i)

SpecDoc == InitDoc /\ [][NextDoc]_vars

(***************************************************************************)
(* TabContainer.  A file path is a sequence of tokens, "/" and "."         *)
(* among them.                                                             *)
(***************************************************************************)
Paths ==
    { <<"a", ".", "py">>,
      <<"b", ".", "py">>,
      <<"d", "/", "a", ".", "py">>,
      <<"n", ".", "txt">>,
      <<"README">> }

\* str.split(sep)
RECURSIVE SplitFrom(_, _, _, _)
SplitFrom(s, sep, i, cur) ==
    IF i > Len(s) THEN <<cur>>
    ELSE IF s[i] = sep THEN <<cur>> \o SplitFrom(s, sep, i + 1, <<>>)
    ELSE SplitFrom(s, sep, i + 1, Append(cur, s[i]))
Split(s, sep) == SplitFrom(s, sep, 1, <<>>)

\* the language name a path segment spells; a segment of several tokens, or
\* none, names no grammar file
LangName(segment) == IF Len(segment) = 1 THEN segment[1] ELSE "?"

\* Tab.__init__ raises IndexError when the path holds no "."
TabRaises(filePath) == Len(Split(filePath, ".")) < 2
Tab(id, filePath) ==
    [id |-> id, filePath |-> filePath, language |-> LangName(Split(filePath, ".")[2])]

\* QTabWidget.indexOf(widget), 0-based, -1 when absent
indexOf(ps, w) ==
    IF \E i \in 1..Len(ps) : ps[i] = w
    THEN (CHOOSE i \in 1..Len(ps) : ps[i] = w /\ \A j \in 1..(i - 1) : ps[j] # w) - 1
    ELSE -1

\* QTabWidget.setCurrentIndex ignores an index that names no page
setCurrentIndex(ps, cur, idx) == IF idx \in 0..(Len(ps) - 1) THEN idx ELSE cur

createTab(filePath) ==
    /\ created < MaxCreated
    /\ IF TabRaises(filePath)
       THEN UNCHANGED <<tabs, pages, currentIndex, created, reported>>
       ELSE LET tab == Tab(created + 1, filePath)
                ps == Append(pages, tab)
            IN  /\ created' = created + 1
                /\ reported' = reported \o loadSyntax(tab.language).reported
                /\ pages' = ps
                /\ tabs' = Append(tabs, tab)
                /\ currentIndex' = setCurrentIndex(ps, IF pages = <<>> THEN 0 ELSE currentIndex,
                                                   indexOf(ps, tab))
    /\ UNCHANGED <<pc, hl, block, doc>>

\* openOrCreateTab without the look-up of the open tabs
openOrCreateTabNoLookup(filePath) == createTab(filePath)

openOrCreateTab(filePath) ==
    IF \E i \in 1..Len(tabs) : tabs[i].filePath = filePath
    THEN LET i == CHOOSE i \in 1..Len(tabs) :
                    /\ tabs[i].filePath = filePath
                    /\ \A j \in 1..(i - 1) : tabs[j].filePath # filePath
         IN  /\ currentIndex' = setCurrentIndex(pages, currentIndex, indexOf(pages, tabs[i]))
             /\ UNCHANGED <<pc, hl, block, reported, doc, tabs, pages, created>>
    ELSE createTab(filePath)

\* closeTab: saveTab raises AttributeError when there is no current widget,
\* list.pop raises IndexError past the end of the list
closeTab ==
    /\ IF currentIndex = -1 \/ currentIndex + 1 > Len(tabs)
       THEN UNCHANGED <<tabs, pages, currentIndex>>
       ELSE LET tab == indexOf(pages, pages[currentIndex + 1])
                ps == RemoveAt(pages, currentIndex + 1)
            IN  /\ tabs' = RemoveAt(tabs, tab + 1)
                /\ pages' = ps
                /\ currentIndex' = IF currentIndex <= Len(ps) - 1 THEN currentIndex
                                   ELSE currentIndex - 1
    /\ UNCHANGED <<pc, hl, block, reported, doc, created>>

\* the user clicks the tab at index i
selectTab(i) ==
    /\ i \in 0..(Len(pages) - 1)
    /\ currentIndex' = i
    /\ UNCHANGED <<pc, hl, block, reported, doc, tabs, pages, created>>

InitTabContainer ==
    /\ pc = "new"
    /\ hl = NewHighlighter(FullTheme, "py")
    /\ block = NoBlock
    /\ reported = <<>>
    /\ doc = <<>>
    /\ InitTabs

NextTabs ==
    \/ \E filePath \in Paths : openOrCreateTab(filePath)
    \/ closeTab
    \/ \E i \in 0..(MaxCreated - 1) : selectTab(i)

SpecTabs == InitTabContainer /\ [][NextTabs]_vars

(***************************************************************************)
(* Properties.  Helpers first.                                             *)
(***************************************************************************)
SpansOf(spans, cat) == SelectSeq(spans, LAMBDA s : s.category = cat)

\* highlightBlock got as far as applying rules
RulesApplied(self) ==
    /\ \A c \in Categories : getFormat(self, c) = c
    /\ \A k \in 1..Len(LanguageKeys) : LanguageKeys[k] \in DOMAIN self.language

\* the multi-line comment tracker as the specification describes it (4.3)
HasMatch(pat, text) == FindIter([kind |-> "plain", pat |-> pat], text, 1) # <<>>
\* an opener with no closer after it on the line
OpensComment(language, text) ==
    LET os == FindIter([kind |-> "plain", pat |-> language.multiline.start], text, 1)
    IN  /\ os # <<>>
        /\ FindIter([kind |-> "plain", pat |-> language.multiline.end], text,
                    os[Len(os)].end + 1) = <<>>
ClosesComment(language, text) == HasMatch(language.multiline.end, text)
TrackerNext(language, S, text) ==
    IF S = InsideComment
    THEN IF ClosesComment(language, text) THEN OutsideComment ELSE InsideComment
    ELSE IF OpensComment(language, text) THEN InsideComment ELSE OutsideComment
RECURSIVE ScanState(_, _, _)
ScanState(language, d, i) ==
    TrackerNext(language,
                IF i = 1 THEN OutsideComment ELSE ScanState(language, d, i - 1),
                d[i].text)

\* C1: with a grammar that defines multi-line delimiters, a line entered in
\* state OutsideComment that holds an opener and no closer leaves state
\* InsideComment; a line entered in InsideComment leaves InsideComment when it
\* holds no closer and OutsideComment when it holds one.
C1_CommentStateTransitions ==
    \A i \in 1..Len(doc) :
        LET S == previousBlockState(doc, i)
            T == doc[i].text
        IN  /\ (S = OutsideComment /\ OpensComment(hl.language, T))
                   => doc[i].userState = InsideComment
            /\ (S = InsideComment /\ ~ClosesComment(hl.language, T))
                   => doc[i].userState = InsideComment
            /\ (S = InsideComment /\ ClosesComment(hl.language, T))
                   => doc[i].userState = OutsideComment

\* C2: after any sequence of edits the stored comment state of every line is
\* the state a scan of the current document from line 0 in OutsideComment
\* gives it.
C2_NoStaleState ==
    \A i \in 1..Len(doc) : doc[i].userState = ScanState(hl.language, doc, i)

C4Order ==
    <<"keyword", "operator", "brace", "special", "definition", "string", "comment",
      "multiline">>
C4Rules(language, cat) == IF cat = "multiline" THEN <<>> ELSE RulesOf(language, cat)
\* the positions in C4Order of the categories with a match covering offset o
C4Covering(language, text, o) ==
    {c \in 1..Len(C4Order) :
        \E r \in 1..Len(C4Rules(language, C4Order[c])) :
            LET ms == FindIter(C4Rules(language, C4Order[c])[r], text, 1)
            IN  \E m \in 1..Len(ms) :
                    IF C4Order[c] = "definition"
                    THEN ms[m].gstart <= o /\ o < ms[m].gend
                    ELSE ms[m].start <= o /\ o < ms[m].end}
C4LastCategory(language, text, o) ==
    LET cs == C4Covering(language, text, o)
    IN  IF cs = {} THEN NoFormat
        ELSE C4Order[CHOOSE c \in cs : \A c2 \in cs : c2 <= c]

\* C4: at every offset of a highlighted line the category shown is that of
\* the last match covering the offset in the order keyword, operator, brace,
\* special, definition, string, comment, multiline; a comment span overrides
\* every other category it overlaps.
C4_LastWriterWins ==
    (pc = "done" /\ RulesApplied(hl) /\ block.raised = "none") =>
        /\ \A o \in 0..(Len(block.text) - 1) :
               block.formats[o + 1] = C4LastCategory(hl.language, block.text, o)
        /\ \A k \in 1..Len(block.spans) :
               block.spans[k].category = "comment" =>
                   \A o \in block.spans[k].start..
                            (block.spans[k].start + block.spans[k].length - 1) :
                       block.formats[o + 1] = "comment"

\* a string span and a comment span overlap, and the comment is what shows
C4_Witness ==
    /\ pc = "done"
    /\ RulesApplied(hl)
    /\ block.raised = "none"
    /\ \E j, k \in 1..Len(block.spans) :
          /\ block.spans[j].category = "string"
          /\ block.spans[k].category = "comment"
          /\ block.spans[j].start < block.spans[k].start
          /\ block.spans[k].start < block.spans[j].start + block.spans[j].length
          /\ block.formats[block.spans[k].start + 1] = "comment"
          /\ block.formats[block.spans[j].start + 1] = "string"

\* C5: with a theme that lacks one category, the spans of every other
\* category are those the full theme gives, and one configuration error is
\* reported.
C5_MissingCategorySkipsOnlyThatCategory ==
    (pc = "done" /\ Cardinality(Categories \ hl.theme) = 1) =>
        /\ \A d \in hl.theme :
               SpansOf(block.spans, d) =
                   SpansOf(highlightBlock([hl EXCEPT !.theme = FullTheme], block.text,
                                          block.prev, OutsideComment).spans, d)
        /\ Len(SelectSeq(reported, LAMBDA msg : msg = "Invalid format")) = 1

\* the grammar without its patterns that do not compile
C6WithoutMalformed(language) ==
    [language EXCEPT
        !.keywords = SelectSeq(@, LAMBDA pat : ~Malformed(pat)),
        !.operators = SelectSeq(@, LAMBDA pat : ~Malformed(pat)),
        !.braces = SelectSeq(@, LAMBDA pat : ~Malformed(pat)),
        !.definitions = SelectSeq(@, LAMBDA pat : ~Malformed(pat)),
        !.specials = SelectSeq(@, LAMBDA pat : ~Malformed(pat))]
C6HasMalformed(language) ==
    \E key \in {"keywords", "operators", "braces", "definitions", "specials"} :
        \E k \in 1..Len(language[key]) : Malformed(language[key][k])

\* C6: with one malformed pattern in the grammar, the line gets every span
\* the grammar without that pattern gives, and the error is reported (in a
\* message box, or as the exception itself).
C6_MalformedPatternSkipsOnlyThatRule ==
    (pc = "done" /\ RulesApplied(hl) /\ C6HasMalformed(hl.language)) =>
        /\ block.spans =
               highlightBlock([hl EXCEPT !.language = C6WithoutMalformed(hl.language)],
                              block.text, block.prev, OutsideComment).spans
        /\ (reported # <<>> \/ block.raised # "none")

\* C7: when the grammar file is not found a warning is reported at load
\* time, and highlighting a line raises nothing and gives the spans of a
\* grammar whose category lists are all empty.
C7_MissingGrammarIsEmptyRuleSet ==
    (pc = "done" /\ DOMAIN hl.language = {} /\ hl.theme = FullTheme) =>
        /\ reported # <<>> /\ reported[1] = "Could not open syntax file"
        /\ block.raised = "none"
        /\ block.spans =
               highlightBlock([hl EXCEPT !.language = LanguageFiles["nil"]],
                              block.text, block.prev, OutsideComment).spans

\* the keyword kw stands at offset o of text with no word character on
\* either side
C8Standalone(text, kw, o) ==
    /\ o + Len(kw) <= Len(text)
    /\ SubSeq(text, o + 1, o + Len(kw)) = kw
    /\ (o = 0 \/ text[o] \notin WordChars)
    /\ (o + Len(kw) = Len(text) \/ text[o + Len(kw) + 1] \notin WordChars)

\* C8: every keyword span lies over an occurrence of a keyword with no word
\* character on either side, and every such occurrence gets exactly one
\* keyword span, of its offset and length.
C8_KeywordWordBoundaries ==
    (pc = "done" /\ RulesApplied(hl)) =>
        LET kws == hl.language.keywords
            ks == SpansOf(block.spans, "keyword")
        IN  /\ \A k \in 1..Len(ks) :
                   \E j \in 1..Len(kws) :
                       /\ ks[k].length = Len(kws[j])
                       /\ C8Standalone(block.text, kws[j], ks[k].start)
            /\ \A j \in 1..Len(kws) : \A o \in 0..Len(block.text) :
                   C8Standalone(block.text, kws[j], o) =>
                       Cardinality({k \in 1..Len(ks) :
                           ks[k].start = o /\ ks[k].length = Len(kws[j])}) = 1

\* "if x: pass" gives the one keyword span (0, 2)
C8_Witness ==
    /\ pc = "done"
    /\ RulesApplied(hl)
    /\ block.text = <<"i", "f", " ", "x", ":", " ", "p", "a", "s", "s">>
    /\ SpansOf(block.spans, "keyword") =
           <<[start |-> 0, length |-> 2, category |-> "keyword"]>>

\* C9: a definition span covers exactly one identifier: a maximal run of word
\* characters that follows a definition keyword (itself delimited by word
\* boundaries) and at least one whitespace character; the span holds no
\* character of the keyword or of the whitespace.
C9_DefinitionSpanIsIdentifier ==
    (pc = "done" /\ RulesApplied(hl)) =>
        LET T == block.text
            ds == SpansOf(block.spans, "definition")
            dfs == hl.language.definitions
        IN  /\ \A k \in 1..Len(ds) :
                 LET s == ds[k].start
                     n == ds[k].length
                 IN  /\ n >= 1 /\ s + n <= Len(T)
                     /\ \A o \in s..(s + n - 1) : T[o + 1] \in WordChars
                     /\ (s + n = Len(T) \/ T[s + n + 1] \notin WordChars)
                     /\ \E j \in 1..Len(dfs), w \in 1..s :
                            /\ \A o \in (s - w)..(s - 1) : T[o + 1] \in Spaces
                            /\ s - w - Len(dfs[j]) >= 0
                            /\ SubSeq(T, s - w - Len(dfs[j]) + 1, s - w) = dfs[j]
                            /\ (s - w - Len(dfs[j]) = 0
                                \/ T[s - w - Len(dfs[j])] \notin WordChars)
            \* and a line that starts with a definition keyword, whitespace and
            \* an identifier has the span of that identifier
            /\ block.raised = "none" =>
               \A j \in 1..Len(dfs), w \in 1..Len(T), n \in 1..Len(T) :
                 LET d == Len(dfs[j]) IN
                 ( /\ d + w + n <= Len(T)
                   /\ SubSeq(T, 1, d) = dfs[j]
                   /\ \A o \in d..(d + w - 1) : T[o + 1] \in Spaces
                   /\ \A o \in (d + w)..(d + w + n - 1) : T[o + 1] \in WordChars
                   /\ (d + w + n = Len(T) \/ T[d + w + n + 1] \notin WordChars) )
                 => \E k \in 1..Len(ds) : ds[k].start = d + w /\ ds[k].length = n

\* "f  if(": the span is the identifier "if" at offset 3
C9_Witness ==
    /\ pc = "done"
    /\ RulesApplied(hl)
    /\ block.text = <<"f", " ", " ", "i", "f", "(">>
    /\ SpansOf(block.spans, "definition") =
           <<[start |-> 3, length |-> 2, category |-> "definition"]>>

\* the state part of C10: distinct paths, tabs mirrors the widget's pages
C10Inv ==
    /\ \A i, j \in 1..Len(tabs) : tabs[i].filePath = tabs[j].filePath => i = j
    /\ tabs = pages
    /\ currentIndex \in -1..(Len(pages) - 1)
    /\ (currentIndex = -1) = (pages = <<>>)
\* the step part of C10: what openOrCreateTab on an open path and closeTab do
C10Step ==
    /\ \A p \in Paths :
           ((\E i \in 1..Len(tabs) : tabs[i].filePath = p) /\ openOrCreateTab(p)) =>
               /\ tabs' = tabs /\ pages' = pages /\ created' = created
               /\ pages'[currentIndex' + 1].filePath = p
    /\ (closeTab /\ currentIndex # -1) =>
           /\ Len(tabs') = Len(tabs) - 1
           /\ tabs' = RemoveAt(tabs, currentIndex + 1)
           /\ pages' = RemoveAt(pages, currentIndex + 1)
           /\ \A i \in 1..Len(tabs') : tabs'[i] # pages[currentIndex + 1]
\* C10: no two open tabs have the same file path, and the tabs list holds
\* the widget's pages in the widget's order; openOrCreateTab on an open path
\* creates no tab and makes that tab current; closeTab removes the current
\* tab from the list and from the widget.
C10_TabsMirrorWidget == [](C10Inv) /\ [][C10Step]_vars

\* two tabs are open after one was closed, and the current one is not the
\* last one opened
C10_Witness ==
    /\ Len(tabs) >= 2
    /\ created > Len(tabs)
    /\ tabs = pages
    /\ currentIndex # Len(tabs) - 1

====
